---- MODULE Spec2Model ----
(***************************************************************************)
(* A model of the match-3 puzzle solver: the board engine of puzzle.py     *)
(* (swap, match detection, the remove/fall/refill cascade, move            *)
(* generation), the Node of node.py, the PriorityQueue of priorityqueue.py *)
(* and the four search strategies of tree.py.                              *)
(*                                                                         *)
(* Coordinates are the program's: (x, y) = (column, row), both from 0.     *)
(* A board is a sequence of rows, a row a sequence of one-character cells: *)
(* "1".."9" for a device, "E" for an empty cell.  TLA+ sequences start at  *)
(* 1, so the program's board[y][x] is board[y + 1][x + 1] here.            *)
(*                                                                         *)
(* A Python exception is the field raised of a puzzle ("" = none): once it *)
(* is set every operator passes the puzzle on untouched, as the exception  *)
(* unwinds the program's stack.                                            *)
(***************************************************************************)
EXTENDS Integers, Sequences, FiniteSets, TLC

VARIABLES
    self,       \* SpecPuzzle: the Puzzle object under test
    op,         \* SpecPuzzle, SpecQueue, SpecNode: the operation applied last
    out,        \* ... what that operation returned (a list)
    pre,        \* ... the object, or the objects, before that operation
    heap,       \* SpecQueue, SpecNode: Python's objects, by address
    objects,    \* SpecQueue, SpecNode: the queues, or the nodes, built so far
    tree,       \* Spec: the Tree object, [root, max_node]
    alg,        \* Spec: the strategy that is running
    pc,         \* Spec: where the program is
    frontier,   \* Spec: the strategy's local frontier (a list of nodes)
    explored,   \* Spec: the strategy's local explored list
    node,       \* Spec: the strategy's local node
    new_node,   \* Spec: the strategy's local new_node
    depth,      \* Spec: id_dfts's local depth
    result,     \* Spec: the list of swaps the strategy returned
    trace       \* Spec: history of the run (not program state)

vars == <<self, op, out, pre, heap, objects, tree, alg, pc, frontier,
          explored, node, new_node, depth, result, trace>>

(***************************************************************************)
(* Bounds of the model.                                                    *)
(***************************************************************************)
\* num_device_types ranges over 2..MaxDeviceTypes (at most 9: a label is
\* one digit).
MaxDeviceTypes == 3
\* max_swaps ranges over 0..MaxSwaps.
MaxSwaps == 2
\* quota ranges over the multiples of 3 up to 3 * MaxQuotaRuns.
MaxQuotaRuns == 2
\* SpecPuzzle performs at most MaxMoves swaps on one board.
MaxMoves == 1
\* SpecRerun runs at most MaxRuns strategies, one after the other, on one Tree.
MaxRuns == 3
\* SpecQueue builds at most MaxQueues queues; a list holds at most
\* MaxQueueLen items, and a queue is owed at most as many (enqueued on it
\* and not dequeued from it).
MaxQueues == 2
MaxQueueLen == 2
\* SpecNode builds at most MaxNodes nodes, the root with them.
MaxNodes == 3
\* SpecAstar gives astargs a max_swaps of at most MaxAstarSwaps and a quota
\* of at most MaxAstarQuota.
MaxAstarSwaps == 4
MaxAstarQuota == 20

(***************************************************************************)
(* Python values.                                                          *)
(***************************************************************************)
\* None where a node, a puzzle or a tree is expected; where an action (a pair
\* of cells) is expected; where a strategy's name is expected.
None == [none |-> TRUE]
NoAction == <<>>
NoName == "None"
\* A local variable that has not been assigned.
Unbound == [unbound |-> TRUE]

DigitChr == <<"0", "1", "2", "3", "4", "5", "6", "7", "8", "9">>

\* str(n) of an integer 0 <= n <= 9.
str(n) == DigitChr[n + 1]

\* Whether int(s) raises ValueError: "E" is no numeral.
int_raises(s) == \A n \in 0..9 : DigitChr[n + 1] # s

\* int(s) of a one-digit numeral.
int(s) == CHOOSE n \in 0..9 : DigitChr[n + 1] = s

\* range(a, b) as a list.
range(a, b) == [i \in 1..(IF b > a THEN b - a ELSE 0) |-> a + i - 1]

ToSet(seq) == {seq[i] : i \in 1..Len(seq)}

Min(S) == CHOOSE m \in S : \A n \in S : m <= n

Max(S) == CHOOSE m \in S : \A n \in S : m >= n

RECURSIVE Concat(_)
\* The lists of a list of lists, joined.
Concat(seqs) ==
    IF seqs = <<>> THEN <<>> ELSE Head(seqs) \o Concat(Tail(seqs))

(***************************************************************************)
(* puzzle.py: class Puzzle.                                                *)
(***************************************************************************)
\* Puzzle.__init__; board is the list of rows already split into labels.
\* bonus_rules is stored and never read, and is left out.  Three fields are
\* not the program's: emptied counts the distinct cells the cascades have
\* emptied; rounds counts the calls of remove_matches in the cascade run
\* last, the first and the recursive ones; refills lists that cascade's
\* writes to the top row, each with its round, its column, the label that
\* was in row 1 below it and the label written.
Puzzle(quota, max_swaps, num_device_types, width, height, pool_height, board) ==
    [ swaps            |-> <<>>,
      falling          |-> FALSE,
      score            |-> 0,
      replaced         |-> 0,
      quota            |-> quota,
      max_swaps        |-> max_swaps,
      num_device_types |-> num_device_types,
      width            |-> width,
      height           |-> height,
      pool_height      |-> pool_height,
      board            |-> board,
      raised           |-> "",
      emptied          |-> 0,
      rounds           |-> 0,
      refills          |-> <<>> ]

\* Puzzle.copy: a value here, so the copy is the puzzle itself.
copy(p) == p

\* self.board[y][x]
Cell(p, x, y) == p.board[y + 1][x + 1]

\* Puzzle.swap
swap(p, dev1, dev2) ==
    LET x1 == dev1[1]
        y1 == dev1[2]
        x2 == dev2[1]
        y2 == dev2[2]
        a  == p.board[y1 + 1][x1 + 1]
        b  == p.board[y2 + 1][x2 + 1]
    IN  [p EXCEPT !.board =
            [[p.board EXCEPT ![y1 + 1][x1 + 1] = b] EXCEPT ![y2 + 1][x2 + 1] = a]]

\* The characters \d matches.
IsDigit(c) == \E n \in 0..9 : DigitChr[n + 1] = c

\* DIGIT_REGEX.search(''.join(row_col)): the leftmost place where a digit is
\* followed by two or more copies of itself, taken as far as it goes;
\* <<start, end>> as m.start(), m.end(), or <<>> for None.
regex_search(row_col) ==
    LET n      == Len(row_col)
        starts == { i \in 1..(n - 2) : /\ IsDigit(row_col[i])
                                       /\ row_col[i + 1] = row_col[i]
                                       /\ row_col[i + 2] = row_col[i] }
    IN  IF starts = {} THEN <<>>
        ELSE LET s == Min(starts)
                 e == Max({ j \in (s + 2)..n :
                              \A k \in s..j : row_col[k] = row_col[s] })
             IN  <<s - 1, e>>

\* Puzzle.get_match
get_match(is_row, row_col, x_y, offset) ==
    LET m == regex_search(row_col)
    IN  IF m # <<>>
        THEN IF is_row
             THEN [i \in 1..(m[2] - m[1]) |-> <<m[1] + i - 1, x_y + offset>>]
             ELSE [i \in 1..(m[2] - m[1]) |-> <<x_y, m[1] + i - 1 + offset>>]
        ELSE <<>>

\* [row[x] for row in self.board[self.pool_height:]]
col_below_pool(p, x) ==
    [i \in 1..(IF Len(p.board) > p.pool_height
               THEN Len(p.board) - p.pool_height ELSE 0)
        |-> p.board[p.pool_height + i][x + 1]]

\* Puzzle.get_matches
get_matches(p, dev1, dev2) ==
    IF dev1[1] # dev2[1]
    THEN LET x1 == dev1[1]
             x2 == dev2[1]
             y  == dev1[2]
         IN  get_match(TRUE, p.board[y + 1], y, 0)
             \o get_match(FALSE, col_below_pool(p, x1), x1, p.pool_height)
             \o get_match(FALSE, col_below_pool(p, x2), x2, p.pool_height)
    ELSE LET x  == dev1[1]
             y1 == dev1[2]
             y2 == dev2[2]
         IN  get_match(TRUE, p.board[y1 + 1], y1, 0)
             \o get_match(TRUE, p.board[y2 + 1], y2, 0)
             \o get_match(FALSE, col_below_pool(p, x), x, p.pool_height)

\* get_all_matches without its loop over the columns.
get_all_matches_rows_only(p) ==
    Concat([i \in 1..(IF Len(p.board) > p.pool_height
                      THEN Len(p.board) - p.pool_height ELSE 0) |->
              get_match(TRUE, p.board[p.pool_height + i], i - 1, p.pool_height)])

\* Puzzle.get_all_matches; zip(*rows) of no rows has no columns.
get_all_matches(p) ==
    LET nrows == IF Len(p.board) > p.pool_height
                 THEN Len(p.board) - p.pool_height ELSE 0
        ncols == IF nrows = 0 THEN 0 ELSE Len(p.board[p.pool_height + 1])
    IN  Concat([i \in 1..nrows |->
                  get_match(TRUE, p.board[p.pool_height + i], i - 1, p.pool_height)])
        \o
        Concat([j \in 1..ncols |->
                  get_match(FALSE, col_below_pool(p, j - 1), j - 1, p.pool_height)])

\* What get_new_device raises: self.board[1] of a one-row board is an
\* IndexError, int('E') a ValueError.
get_new_device_raises(p, x) ==
    IF Len(p.board) < 2 THEN "IndexError"
    ELSE IF int_raises(Cell(p, x, 1)) THEN "ValueError"
    ELSE ""

\* get_new_device with the remainder taken modulo num_device_types + 1.
get_new_device_one_more_type(p, x) ==
    str(((int(Cell(p, x, 1)) + x + p.replaced) % (p.num_device_types + 1)) + 1)

\* Puzzle.get_new_device
get_new_device(p, x) ==
    str(((int(Cell(p, x, 1)) + x + p.replaced) % p.num_device_types) + 1)

RECURSIVE replace_device(_, _, _)
\* replace_device with the label computed before replaced is incremented.
replace_device_label_first(p, x, y) ==
    IF y = 0
    THEN LET p1 == [p EXCEPT !.replaced = @ + 1]
         IN  IF get_new_device_raises(p, x) # ""
             THEN [p1 EXCEPT !.raised = get_new_device_raises(p, x)]
             ELSE [p1 EXCEPT !.board[1][x + 1] = get_new_device(p, x),
                             !.refills = Append(@, [round |-> p.rounds,
                                                    x     |-> x,
                                                    below |-> Cell(p, x, 1),
                                                    label |-> get_new_device(p, x)])]
    ELSE replace_device(swap(p, <<x, y>>, <<x, y - 1>>), x, y - 1)

\* Puzzle.replace_device
replace_device(p, x, y) ==
    IF y = 0
    THEN LET p1 == [p EXCEPT !.replaced = @ + 1]
         IN  IF get_new_device_raises(p1, x) # ""
             THEN [p1 EXCEPT !.raised = get_new_device_raises(p1, x)]
             ELSE [p1 EXCEPT !.board[1][x + 1] = get_new_device(p1, x),
                             !.refills = Append(@, [round |-> p1.rounds,
                                                    x     |-> x,
                                                    below |-> Cell(p1, x, 1),
                                                    label |-> get_new_device(p1, x)])]
    ELSE replace_device(swap(p, <<x, y>>, <<x, y - 1>>), x, y - 1)

RECURSIVE fall_scan(_, _)
\* The two loops of simulate_falling from cell number k on, row by row.
fall_scan(p, k) ==
    IF p.raised # "" \/ k >= p.height * p.width THEN p
    ELSE LET x == k % p.width
             y == k \div p.width
         IN  IF Cell(p, x, y) = "E"
             THEN fall_scan(replace_device([p EXCEPT !.falling = TRUE], x, y), k + 1)
             ELSE fall_scan(p, k + 1)

\* Puzzle.simulate_falling
simulate_falling(p) == fall_scan([p EXCEPT !.falling = FALSE], 0)

RECURSIVE fall_loop(_)
\* while self.falling: self.simulate_falling()
fall_loop(p) ==
    IF p.raised = "" /\ p.falling THEN fall_loop(simulate_falling(p)) ELSE p

\* for x, y in matches: self.score += 1; self.board[y][x] = 'E';
\* self.falling = True  (matches is not empty)
mark_matches(p, matches) ==
    [p EXCEPT !.score   = @ + Len(matches),
              !.board   = [i \in 1..Len(p.board) |->
                             [j \in 1..Len(p.board[i]) |->
                                IF <<j - 1, i - 1>> \in ToSet(matches)
                                THEN "E" ELSE p.board[i][j]]],
              !.falling = TRUE,
              !.emptied = @ + Cardinality(ToSet(matches))]

RECURSIVE cascade(_, _, _)
\* cascade without the return on an empty list of matches.
cascade_no_return(p, matches, seen) ==
    LET p0 == [p EXCEPT !.replaced = 0, !.rounds = @ + 1]
        p1 == fall_loop(mark_matches(p0, matches))
    IN  IF p1.raised # "" THEN p1
        ELSE IF p1.board \in seen
             THEN [p1 EXCEPT !.raised = "RecursionError"]
             ELSE cascade(p1, get_all_matches(p1), seen \cup {p1.board})

\* The body of remove_matches.  A round's outcome is a function of the
\* board it starts from, so a board in seen (the boards earlier rounds of
\* this cascade started from) means the recursion never ends: Python then
\* raises RecursionError.
cascade(p, matches, seen) ==
    LET p0 == [p EXCEPT !.replaced = 0, !.rounds = @ + 1]
    IN  IF matches = <<>> THEN p0
        ELSE LET p1 == fall_loop(mark_matches(p0, matches))
             IN  IF p1.raised # "" THEN p1
                 ELSE IF p1.board \in seen
                      THEN [p1 EXCEPT !.raised = "RecursionError"]
                      ELSE cascade(p1, get_all_matches(p1), seen \cup {p1.board})

\* Puzzle.remove_matches
remove_matches(p, matches) ==
    cascade([p EXCEPT !.rounds = 0, !.refills = <<>>], matches, {})

\* The pairs get_valid_moves tries, in its order.
horizontal_swaps(p) ==
    Concat([i \in 1..(IF p.height > p.pool_height
                      THEN p.height - p.pool_height ELSE 0) |->
              [j \in 1..(IF p.width > 1 THEN p.width - 1 ELSE 0) |->
                 << <<j - 1, p.pool_height + i - 1>>,
                    <<j, p.pool_height + i - 1>> >>]])

\* vertical_swaps with the rows taken from pool_height + 1 on.
vertical_swaps_from_second_row(p) ==
    Concat([i \in 1..(IF p.height - 2 > p.pool_height
                      THEN p.height - 2 - p.pool_height ELSE 0) |->
              [j \in 1..p.width |->
                 << <<j - 1, p.pool_height + i>>,
                    <<j - 1, p.pool_height + i + 1>> >>]])

vertical_swaps(p) ==
    Concat([i \in 1..(IF p.height - 1 > p.pool_height
                      THEN p.height - 1 - p.pool_height ELSE 0) |->
              [j \in 1..p.width |->
                 << <<j - 1, p.pool_height + i - 1>>,
                    <<j - 1, p.pool_height + i>> >>]])

RECURSIVE try_swaps(_, _, _)
\* The body of get_valid_moves' loops over the pairs todo: swap, test,
\* swap back.  Returns the puzzle as the loops leave it and the moves.
try_swaps(p, todo, moves) ==
    IF todo = <<>> THEN [state |-> p, moves |-> moves]
    ELSE LET m  == Head(todo)
             p1 == swap(p, m[1], m[2])
             ok == get_matches(p1, m[1], m[2]) # <<>>
             p2 == swap(p1, m[1], m[2])
         IN  try_swaps(p2, Tail(todo), IF ok THEN Append(moves, m) ELSE moves)

\* Puzzle.get_valid_moves: [state: the puzzle afterwards, moves: the list].
get_valid_moves(p) ==
    try_swaps(p, horizontal_swaps(p) \o vertical_swaps(p), <<>>)

\* Puzzle.__eq__
puzzle_eq(p, q) == p.board = q.board /\ p.score = q.score

(***************************************************************************)
(* node.py: class Node.  parent is stored and never read, and is left out. *)
(***************************************************************************)
\* Node.__init__
Node(state, action, cost) ==
    [state |-> copy(state), action |-> action, cost |-> cost]

\* Node.perform_action without the append: the swap is done and counted,
\* and not recorded.
perform_action_no_record(n) ==
    [n EXCEPT !.state = swap(n.state, n.action[1], n.action[2]),
              !.cost  = @ + 1]

\* Node.perform_action
perform_action(n) ==
    [n EXCEPT !.state = [swap(n.state, n.action[1], n.action[2])
                            EXCEPT !.swaps = Append(@, <<n.action[1], n.action[2]>>)],
              !.cost  = @ + 1]

\* Node.__eq__
node_eq(n, m) == puzzle_eq(n.state, m.state)

\* The body of every strategy's loop over the valid moves (tree.py, e.g.
\* lines 61-67): the child of parent for the swap of dev1 and dev2.
make_child(parent, dev1, dev2) ==
    LET n1 == perform_action(Node(parent.state, <<dev1, dev2>>, parent.cost))
    IN  [n1 EXCEPT !.state = remove_matches(@, get_matches(@, dev1, dev2))]

(***************************************************************************)
(* SpecPuzzle: one Puzzle object and the operations of puzzle.py on it, as *)
(* Tree.__init__ and the strategies call them.                             *)
(***************************************************************************)
\* <<width, height>> of the boards SpecPuzzle starts from.
PuzzleShapes == { <<3, 4>>, <<6, 1>> }

DeviceTypes == 2..MaxDeviceTypes

\* The labels of the boards given: the two every num_device_types allows.
\* The refill formula brings in the others.
InitLabels == { "1", "2" }

Boards(width, height) == [1..height -> [1..width -> InitLabels]]

\* SpecPuzzle and Spec hold their objects as values: they use no heap.
heap_idle ==
    /\ heap = <<>>
    /\ objects = <<>>

heap_vars == <<heap, objects>>

search_idle ==
    /\ tree = None
    /\ alg = NoName
    /\ pc = "idle"
    /\ frontier = <<>>
    /\ explored = <<>>
    /\ node = Unbound
    /\ new_node = Unbound
    /\ depth = 0
    /\ result = <<>>
    /\ trace = <<>>

search_vars == <<tree, alg, pc, frontier, explored, node, new_node, depth,
                 result, trace>>

InitPuzzle ==
    /\ \E shape \in PuzzleShapes, n \in DeviceTypes :
         \E pool_height \in 0..shape[2], board \in Boards(shape[1], shape[2]) :
            self = Puzzle(3, 1, n, shape[1], shape[2], pool_height, board)
    /\ op = "new"
    /\ out = <<>>
    /\ pre = self
    /\ search_idle
    /\ heap_idle

\* Tree.__init__, line 26: the cascade on the board as given.
TreeInitCascade ==
    /\ op = "new"
    /\ self' = remove_matches(self, get_all_matches(self))
    /\ op' = "remove_matches"
    /\ out' = <<>>
    /\ pre' = self
    /\ UNCHANGED <<search_vars, heap_vars>>

\* A call of get_all_matches.
CallGetAllMatches ==
    /\ op \in {"new", "remove_matches"}
    /\ self.raised = ""
    /\ out' = get_all_matches(self)
    /\ op' = "get_all_matches"
    /\ pre' = self
    /\ UNCHANGED <<self, search_vars, heap_vars>>

\* A call of get_valid_moves, on the board a cascade has left.
CallGetValidMoves ==
    /\ op = "remove_matches"
    /\ self.raised = ""
    /\ out' = get_valid_moves(self).moves
    /\ self' = get_valid_moves(self).state
    /\ op' = "get_valid_moves"
    /\ pre' = self
    /\ UNCHANGED <<search_vars, heap_vars>>

\* One pass of a strategy's loop over the valid moves: the child's puzzle.
PerformMove ==
    /\ op = "get_valid_moves"
    /\ Len(self.swaps) < MaxMoves
    /\ \E i \in 1..Len(out) :
         self' = make_child(Node(self, NoAction, Len(self.swaps)),
                            out[i][1], out[i][2]).state
    /\ op' = "remove_matches"
    /\ out' = <<>>
    /\ pre' = self
    /\ UNCHANGED <<search_vars, heap_vars>>

\* remove_matches(get_all_matches()) once more, on the board a cascade
\* has left.
CallRemoveAllMatches ==
    /\ op = "remove_matches"
    /\ self.raised = ""
    /\ self' = remove_matches(self, get_all_matches(self))
    /\ op' = "remove_all_matches"
    /\ out' = <<>>
    /\ pre' = self
    /\ UNCHANGED <<search_vars, heap_vars>>

NextPuzzle ==
    \/ TreeInitCascade
    \/ CallRemoveAllMatches
    \/ CallGetAllMatches
    \/ CallGetValidMoves
    \/ PerformMove

SpecPuzzle == InitPuzzle /\ [][NextPuzzle]_vars

(***************************************************************************)
(* priorityqueue.py: class PriorityQueue.  The key function is named by    *)
(* the strategy that passes it (tree.py, lines 167 and 225).               *)
(***************************************************************************)
abs(n) == IF n < 0 THEN -n ELSE n

key_of(key, n) ==
    IF key = "grbefgs" THEN n.state.quota - n.state.score
    ELSE abs(n.state.quota - n.state.score) * n.cost

\* PriorityQueue.__init__
PriorityQueue(key, items) == [key |-> key, items |-> items]

\* PriorityQueue.enqueue
enqueue(q, item) == [q EXCEPT !.items = Append(@, item)]

RECURSIVE sort_reverse(_, _)
\* self.items.sort(key=self.key, reverse=True): largest key first, items
\* of equal key in the order they had (the sort is stable).
sort_reverse(key, items) ==
    IF items = <<>> THEN <<>>
    ELSE LET n      == Len(items)
             x      == items[n]
             sorted == sort_reverse(key, SubSeq(items, 1, n - 1))
             before == { i \in 0..Len(sorted) :
                           \A j \in 1..i : key_of(key, sorted[j]) >= key_of(key, x) }
             k      == Max(before)
         IN  SubSeq(sorted, 1, k) \o <<x>> \o SubSeq(sorted, k + 1, Len(sorted))

\* PriorityQueue.dequeue: [item: the item popped, queue: the queue afterwards]
dequeue(q) ==
    LET sorted == sort_reverse(q.key, q.items)
    IN  [item  |-> sorted[Len(sorted)],
         queue |-> [q EXCEPT !.items = SubSeq(sorted, 1, Len(sorted) - 1)]]

\* PriorityQueue.__len__
len(q) == Len(q.items)

(***************************************************************************)
(* SpecQueue: PriorityQueue objects and their lists as Python holds them.  *)
(* heap[a] is the list object at address a; a PriorityQueue object holds   *)
(* in items the address of its list (self.items = items binds a name, it   *)
(* copies nothing).  enqueue and dequeue change that list in place.        *)
(***************************************************************************)
\* The list object of the default argument items=[]: Python builds it once,
\* when the def statement of __init__ runs, so it is the first object.
DefaultItems == 1

\* The items enqueued: nodes, of which the keys read quota, score and cost.
\* Under either key two of them tie.
QueueItems ==
    { [state |-> [quota |-> 3, score |-> 0], cost |-> 1],
      [state |-> [quota |-> 3, score |-> 0], cost |-> 2],
      [state |-> [quota |-> 3, score |-> 6], cost |-> 1] }

QueueKeys == {"grbefgs", "astargs"}

\* The queue at objects[i], with its list in place of the list's address.
queue_at(h, i) == [objects[i].obj EXCEPT !.items = h[@]]

\* The lists of all the queues, as enqueue or dequeue on queue i finds them.
queue_lists(i) ==
    [target |-> i, contents |-> [j \in 1..Len(objects) |-> queue_at(heap, j).items]]

\* How many times v is in list.
count(list, v) == Cardinality({ i \in 1..Len(list) : list[i] = v })

\* The items of list, each with the number of times it is there.
counts(list) == [v \in QueueItems |-> count(list, v)]

RECURSIVE total(_, _)
\* How many items the counts c stand for, those of the items in S.
total(c, S) ==
    IF S = {} THEN 0
    ELSE LET v == CHOOSE w \in S : TRUE
         IN  c[v] + total(c, S \ {v})

InitQueue ==
    /\ heap = << <<>> >>
    /\ objects = <<>>
    /\ self = None
    /\ op = "def"
    /\ out = <<>>
    /\ pre = queue_lists(0)
    /\ search_idle

\* PriorityQueue(key): items is the default argument's list.  The field
\* held is not the program's: how many times each item was given at
\* construction or enqueued on this queue, less the times it was dequeued
\* from it.
QueueNewDefault ==
    /\ Len(objects) < MaxQueues
    /\ \E key \in QueueKeys :
          objects' = Append(objects, [obj  |-> PriorityQueue(key, DefaultItems),
                                      held |-> counts(<<>>)])
    /\ op' = "PriorityQueue"
    /\ out' = <<>>
    /\ pre' = queue_lists(0)
    /\ UNCHANGED <<heap, self, search_vars>>

\* PriorityQueue(key, [...]): items is the list the caller has just built
\* (as tree.py, lines 167 and 225, builds [self.root]).
QueueNewWithItems ==
    /\ Len(objects) < MaxQueues
    /\ \E key \in QueueKeys, items \in {<<>>} \cup { <<i>> : i \in QueueItems } :
          /\ heap' = Append(heap, items)
          /\ objects' = Append(objects, [obj  |-> PriorityQueue(key, Len(heap) + 1),
                                         held |-> counts(items)])
    /\ op' = "PriorityQueue"
    /\ out' = <<>>
    /\ pre' = queue_lists(0)
    /\ UNCHANGED <<self, search_vars>>

\* q.enqueue(item) on one of the queues.
QueueEnqueue ==
    /\ \E i \in 1..Len(objects), item \in QueueItems :
          /\ len(queue_at(heap, i)) < MaxQueueLen
          /\ total(objects[i].held, QueueItems) < MaxQueueLen
          /\ heap' = [heap EXCEPT ![objects[i].obj.items] =
                                     enqueue(queue_at(heap, i), item).items]
          /\ objects' = [objects EXCEPT ![i].held[item] = @ + 1]
          /\ out' = <<item>>
          /\ pre' = queue_lists(i)
    /\ op' = "enqueue"
    /\ UNCHANGED <<self, search_vars>>

\* q.dequeue() on one of the queues that is not empty.
QueueDequeue ==
    /\ \E i \in 1..Len(objects) :
          /\ len(queue_at(heap, i)) > 0
          /\ heap' = [heap EXCEPT ![objects[i].obj.items] =
                                     dequeue(queue_at(heap, i)).queue.items]
          /\ objects' = [objects EXCEPT ![i].held[dequeue(queue_at(heap, i)).item] =
                                           IF @ > 0 THEN @ - 1 ELSE 0]
          /\ out' = <<dequeue(queue_at(heap, i)).item>>
          /\ pre' = queue_lists(i)
    /\ op' = "dequeue"
    /\ UNCHANGED <<self, search_vars>>

NextQueue ==
    \/ QueueNewDefault
    \/ QueueNewWithItems
    \/ QueueEnqueue
    \/ QueueDequeue

SpecQueue == InitQueue /\ [][NextQueue]_vars

(***************************************************************************)
(* tree.py: class Tree.                                                    *)
(***************************************************************************)
\* Tree.show_swaps: one line per swap, in order.
show_swaps(n) == n.state.swaps

\* bfts_max_node with >= for >: of equal scores the last is kept.
bfts_max_node_keeps_last(n, max_node) ==
    IF n.state.score >= max_node.state.score THEN n ELSE max_node

\* bfts_branch with > for >=: a node of cost max_swaps is expanded.
bfts_branch_one_more(n) ==
    IF n.cost > n.state.max_swaps THEN "continue"
    ELSE IF n.state.score >= n.state.quota THEN "break"
    ELSE "expand"

\* astargs_branch with its two tests in the order bfts has them.
astargs_branch_cost_first(n) ==
    IF n.cost >= n.state.max_swaps THEN "continue"
    ELSE IF n.state.score >= n.state.quota THEN "break"
    ELSE "expand"

\* bfts, lines 47-48: the node self.max_node names after the test.
bfts_max_node(n, max_node) ==
    IF n.state.score > max_node.state.score THEN n ELSE max_node

\* bfts, lines 50-56: what the pass does with the node it popped.
bfts_branch(n) ==
    IF n.cost >= n.state.max_swaps THEN "continue"
    ELSE IF n.state.score >= n.state.quota THEN "break"
    ELSE "expand"

\* _dls, lines 132-133
dls_max_node(n, max_node) ==
    IF n.state.score >= max_node.state.score THEN n ELSE max_node

\* grbefgs, lines 183-184
grbefgs_max_node(n, max_node) ==
    IF n.state.score > max_node.state.score THEN n ELSE max_node

\* grbefgs, lines 186-192
grbefgs_branch(n) ==
    IF n.cost >= n.state.max_swaps THEN "continue"
    ELSE IF n.state.score >= n.state.quota THEN "break"
    ELSE "expand"

\* astargs, lines 241-242
astargs_max_node(n, max_node) ==
    IF n.state.score > max_node.state.score THEN n ELSE max_node

\* astargs, lines 244-250
astargs_branch(n) ==
    IF n.state.score >= n.state.quota THEN "break"
    ELSE IF n.cost >= n.state.max_swaps THEN "continue"
    ELSE "expand"

\* x in explored, by Node.__eq__
in_list(n, list) == \E i \in 1..Len(list) : node_eq(list[i], n)

RECURSIVE children(_, _, _)
\* The new nodes of a strategy's loop over moves, in order, up to and
\* with the first whose cascade raises.
children(parent, moves, acc) ==
    IF moves = <<>> THEN acc
    ELSE LET c == make_child(parent, Head(moves)[1], Head(moves)[2])
         IN  IF c.state.raised # "" THEN Append(acc, c)
             ELSE children(parent, Tail(moves), Append(acc, c))

\* for dev1, dev2 in node.state.get_valid_moves(): ... (the new nodes)
expand(n) ==
    children([n EXCEPT !.state = get_valid_moves(n.state).state],
             get_valid_moves(n.state).moves, <<>>)

raised_in(nodes) ==
    IF nodes # <<>> /\ nodes[Len(nodes)].state.raised # ""
    THEN nodes[Len(nodes)].state.raised ELSE ""

\* list reversed
reversed(list) == [i \in 1..Len(list) |-> list[Len(list) + 1 - i]]

RECURSIVE dls_run(_, _, _, _, _)
\* Tree._dls.  t carries what the recursion reads and writes: self.max_node,
\* the node found (None), the exception raised (""), and for the history
\* the nodes generated and the nodes expanded.  With entering, the call
\* _dls(n, d) from its first line; without, its loop over the valid moves
\* from the moves still to do.
dls_run(t, n, d, entering, moves) ==
    IF entering
    THEN IF d = 0 /\ n.state.score >= n.state.quota THEN [t EXCEPT !.found = n]
         ELSE IF d > 0
         THEN dls_run([t EXCEPT !.max_node = dls_max_node(n, @),
                                !.expanded = @ \cup {n}],
                      [n EXCEPT !.state = get_valid_moves(n.state).state],
                      d, FALSE, get_valid_moves(n.state).moves)
         ELSE t
    ELSE IF moves = <<>> THEN t
         ELSE LET c == make_child(n, Head(moves)[1], Head(moves)[2])
              IN  IF c.state.raised # "" THEN [t EXCEPT !.raised = c.state.raised]
                  ELSE LET f == dls_run([t EXCEPT !.generated = @ \cup {c}],
                                        c, d - 1, TRUE, <<>>)
                       IN  IF f.raised # "" \/ f.found # None THEN f
                           ELSE dls_run(f, n, d, FALSE, Tail(moves))

\* Tree._dls
dls(t, n, d) == dls_run(t, n, d, TRUE, <<>>)

(***************************************************************************)
(* Spec: driver.py builds the Puzzle and the Tree, and one strategy runs.  *)
(***************************************************************************)
\* <<width, height>> of the boards Spec starts from.
SearchShapes == { <<3, 3>>, <<4, 2>> }

Strategies == {"bfts", "id_dfts", "grbefgs", "astargs"}

\* trace: the nodes the strategy took from its frontier, in order, each with
\* whether it was absent from explored (fresh); the nodes built; the nodes
\* whose valid moves were tried; how the run ended ("goal", "exhausted" or
\* the exception raised); the node whose swaps were returned; the strategies
\* that ran on this Tree before, in order, each with what it returned.
NoTrace ==
    [visited |-> <<>>, generated |-> {}, expanded |-> {}, how |-> "", ret |-> None,
     runs |-> <<>>]

Init ==
    /\ \E shape \in SearchShapes, n \in DeviceTypes :
         \E pool_height \in 0..shape[2], board \in Boards(shape[1], shape[2]) :
            \E q \in 1..MaxQuotaRuns, max_swaps \in 0..MaxSwaps :
               self = Puzzle(3 * q, max_swaps, n, shape[1], shape[2], pool_height, board)
    /\ op = "new"
    /\ out = <<>>
    /\ pre = None
    /\ tree = None
    /\ alg = NoName
    /\ pc = "main"
    /\ frontier = <<>>
    /\ explored = <<>>
    /\ node = Unbound
    /\ new_node = Unbound
    /\ depth = 0
    /\ result = <<>>
    /\ trace = NoTrace
    /\ heap_idle

puzzle_vars == <<op, out, pre>>

\* Tree.__init__ (driver.py, line 31): the root is a copy of top, settled.
\* The driver keeps no reference to top.
TreeInit ==
    /\ pc = "main"
    /\ LET n    == Node(self, NoAction, 0)
           root == [n EXCEPT !.state = remove_matches(@, get_all_matches(@))]
       IN  /\ tree' = [root |-> root, max_node |-> root]
           /\ pc' = IF root.state.raised # "" THEN "error" ELSE "tree"
           /\ trace' = [trace EXCEPT !.how = root.state.raised]
    /\ self' = None
    /\ UNCHANGED <<puzzle_vars, heap_vars, alg, frontier, explored, node, new_node, depth,
                   result>>

\* The call of a strategy, up to its loop.
Call ==
    /\ pc = "tree"
    /\ \E a \in Strategies :
         /\ alg' = a
         /\ pc' = a
         /\ frontier' = IF a = "bfts" THEN <<tree.root>>
                        ELSE IF a = "id_dfts" THEN <<>>
                        ELSE PriorityQueue(a, <<tree.root>>)
    /\ trace' = [NoTrace EXCEPT !.generated = {tree.root}, !.runs = trace.runs]
    /\ UNCHANGED <<self, puzzle_vars, heap_vars, tree, explored, node, new_node, depth, result>>

\* One pass of the loop of bfts (lines 43-71).
BftsStep ==
    /\ pc = "bfts"
    /\ Len(frontier) > 0
    /\ \E n \in { frontier[Len(frontier)] } :
       \E new \in { IF bfts_branch(n) = "expand" THEN expand(n) ELSE <<>> } :
       LET rest == SubSeq(frontier, 1, Len(frontier) - 1)
           mx   == bfts_max_node(n, tree.max_node)
           seen == [trace EXCEPT !.visited = Append(@, [node |-> n, fresh |-> TRUE])]
       IN  /\ node' = n
           /\ tree' = [tree EXCEPT !.max_node = mx]
           /\ IF bfts_branch(n) = "continue"
              THEN /\ frontier' = rest
                   /\ trace' = seen
                   /\ UNCHANGED <<pc, result, new_node>>
              ELSE IF bfts_branch(n) = "break"
              THEN /\ frontier' = rest
                   /\ pc' = "done"
                   /\ result' = show_swaps(n)
                   /\ trace' = [seen EXCEPT !.how = "goal", !.ret = n]
                   /\ UNCHANGED new_node
              ELSE /\ frontier' = reversed(new) \o rest
                   /\ new_node' = IF new = <<>> THEN new_node ELSE new[Len(new)]
                   /\ pc' = IF raised_in(new) # "" THEN "error" ELSE pc
                   /\ trace' = [seen EXCEPT
                                  !.expanded  = @ \cup {n},
                                  !.generated = @ \cup {c \in ToSet(new) : c.state.raised = ""},
                                  !.how       = raised_in(new)]
                   /\ UNCHANGED result
    /\ UNCHANGED <<self, puzzle_vars, heap_vars, alg, explored, depth>>

\* The else of the loop of bfts (lines 73-77).
BftsElse ==
    /\ pc = "bfts"
    /\ Len(frontier) = 0
    /\ node' = tree.max_node
    /\ pc' = "done"
    /\ result' = show_swaps(tree.max_node)
    /\ trace' = [trace EXCEPT !.how = "exhausted", !.ret = tree.max_node]
    /\ UNCHANGED <<self, puzzle_vars, heap_vars, tree, alg, frontier, explored, new_node, depth>>

\* One pass of the loop of id_dfts (lines 102-107).
IdDftsStep ==
    /\ pc = "id_dfts"
    /\ depth <= tree.root.state.max_swaps
    /\ \E t \in { dls([max_node |-> tree.max_node, found |-> None, raised |-> "",
                         generated |-> trace.generated, expanded |-> trace.expanded],
                        tree.root, depth) } :
           /\ tree' = [tree EXCEPT !.max_node = t.max_node]
           /\ node' = t.found
           /\ IF t.raised # ""
              THEN /\ pc' = "error"
                   /\ trace' = [trace EXCEPT !.generated = t.generated,
                                             !.expanded = t.expanded,
                                             !.how = t.raised]
                   /\ UNCHANGED <<result, depth>>
              ELSE IF t.found # None
              THEN /\ pc' = "done"
                   /\ result' = show_swaps(t.found)
                   /\ trace' = [trace EXCEPT !.generated = t.generated,
                                             !.expanded = t.expanded,
                                             !.how = "goal", !.ret = t.found]
                   /\ UNCHANGED depth
              ELSE /\ depth' = depth + 1
                   /\ trace' = [trace EXCEPT !.generated = t.generated,
                                             !.expanded = t.expanded]
                   /\ UNCHANGED <<pc, result>>
    /\ UNCHANGED <<self, puzzle_vars, heap_vars, alg, frontier, explored, new_node>>

\* The end of id_dfts (line 110).
IdDftsEnd ==
    /\ pc = "id_dfts"
    /\ depth > tree.root.state.max_swaps
    /\ pc' = "done"
    /\ result' = show_swaps(tree.max_node)
    /\ trace' = [trace EXCEPT !.how = "exhausted", !.ret = tree.max_node]
    /\ UNCHANGED <<self, puzzle_vars, heap_vars, tree, alg, frontier, explored, node,
                   new_node, depth>>

\* One pass of the loop of grbefgs (lines 173-206).  new_node is a local of
\* the function, bound only at line 197: reading it before raises
\* UnboundLocalError.
GrbefgsStep ==
    /\ pc = "grbefgs"
    /\ len(frontier) > 0
    /\ \E d \in { dequeue(frontier) } :
       \E new \in { IF new_node # Unbound /\ grbefgs_branch(d.item) = "expand"
                     THEN expand(d.item) ELSE <<>> } :
       LET n    == d.item
           mx   == grbefgs_max_node(n, tree.max_node)
       IN  /\ node' = n
           /\ IF new_node = Unbound
              THEN /\ pc' = "error"
                   /\ frontier' = d.queue
                   /\ trace' = [trace EXCEPT !.how = "UnboundLocalError"]
                   /\ UNCHANGED <<tree, explored, new_node, result>>
              ELSE IF in_list(new_node, explored)
              THEN /\ frontier' = d.queue
                   /\ UNCHANGED <<tree, explored, new_node, result, pc, trace>>
              ELSE /\ explored' = Append(explored, new_node)
                   /\ tree' = [tree EXCEPT !.max_node = mx]
                   /\ IF grbefgs_branch(n) = "continue"
                      THEN /\ frontier' = d.queue
                           /\ UNCHANGED <<pc, result, new_node, trace>>
                      ELSE IF grbefgs_branch(n) = "break"
                      THEN /\ frontier' = d.queue
                           /\ pc' = "done"
                           /\ result' = show_swaps(n)
                           /\ trace' = [trace EXCEPT !.how = "goal", !.ret = n]
                           /\ UNCHANGED new_node
                      ELSE /\ frontier' = [d.queue EXCEPT !.items = @ \o new]
                           /\ new_node' = IF new = <<>> THEN new_node
                                          ELSE new[Len(new)]
                           /\ pc' = IF raised_in(new) # "" THEN "error" ELSE pc
                           /\ trace' = [trace EXCEPT !.how = raised_in(new)]
                           /\ UNCHANGED result
    /\ UNCHANGED <<self, puzzle_vars, heap_vars, alg, depth>>

\* One pass of the loop of astargs (lines 231-264).
AstargsStep ==
    /\ pc = "astargs"
    /\ len(frontier) > 0
    /\ \E d \in { dequeue(frontier) } :
       \E new \in { IF ~in_list(d.item, explored) /\ astargs_branch(d.item) = "expand"
                     THEN expand(d.item) ELSE <<>> } :
       LET n     == d.item
           fresh == ~in_list(n, explored)
           mx    == astargs_max_node(n, tree.max_node)
           seen  == [trace EXCEPT !.visited = Append(@, [node |-> n, fresh |-> fresh])]
       IN  /\ node' = n
           /\ IF ~fresh
              THEN /\ frontier' = d.queue
                   /\ trace' = seen
                   /\ UNCHANGED <<tree, explored, new_node, result, pc>>
              ELSE /\ explored' = Append(explored, n)
                   /\ tree' = [tree EXCEPT !.max_node = mx]
                   /\ IF astargs_branch(n) = "break"
                      THEN /\ frontier' = d.queue
                           /\ pc' = "done"
                           /\ result' = show_swaps(n)
                           /\ trace' = [seen EXCEPT !.how = "goal", !.ret = n]
                           /\ UNCHANGED new_node
                      ELSE IF astargs_branch(n) = "continue"
                      THEN /\ frontier' = d.queue
                           /\ trace' = seen
                           /\ UNCHANGED <<pc, result, new_node>>
                      ELSE /\ frontier' = [d.queue EXCEPT !.items = @ \o new]
                           /\ new_node' = IF new = <<>> THEN new_node
                                          ELSE new[Len(new)]
                           /\ pc' = IF raised_in(new) # "" THEN "error" ELSE pc
                           /\ trace' = [seen EXCEPT
                                          !.expanded  = @ \cup {n},
                                          !.generated = @ \cup {c \in ToSet(new) :
                                                                  c.state.raised = ""},
                                          !.how       = raised_in(new)]
                           /\ UNCHANGED result
    /\ UNCHANGED <<self, puzzle_vars, heap_vars, alg, depth>>

\* The else of the loops of grbefgs and astargs (lines 208-212, 267-271).
QueueElse ==
    /\ pc \in {"grbefgs", "astargs"}
    /\ len(frontier) = 0
    /\ node' = tree.max_node
    /\ pc' = "done"
    /\ result' = show_swaps(tree.max_node)
    /\ trace' = [trace EXCEPT !.how = "exhausted", !.ret = tree.max_node]
    /\ UNCHANGED <<self, puzzle_vars, heap_vars, tree, alg, frontier, explored, new_node, depth>>

Next ==
    \/ TreeInit
    \/ Call
    \/ BftsStep
    \/ BftsElse
    \/ IdDftsStep
    \/ IdDftsEnd
    \/ GrbefgsStep
    \/ AstargsStep
    \/ QueueElse

Spec == Init /\ [][Next]_vars

(***************************************************************************)
(* SpecRerun: as Spec, and a strategy that has returned may be followed by *)
(* another call of a strategy on the same Tree object.                     *)
(***************************************************************************)
\* <<width, height>> of the boards SpecRerun starts from.
RerunShapes == { <<3, 3>> }

InitRerun ==
    /\ Init
    /\ <<self.width, self.height>> \in RerunShapes

\* The strategy has returned: its locals are gone, the Tree object stays as
\* the strategy left it (self.max_node).
Rerun ==
    /\ pc = "done"
    /\ Len(trace.runs) + 1 < MaxRuns
    /\ trace' = [trace EXCEPT !.runs = Append(@, [alg |-> alg, result |-> result])]
    /\ pc' = "tree"
    /\ alg' = NoName
    /\ frontier' = <<>>
    /\ explored' = <<>>
    /\ node' = Unbound
    /\ new_node' = Unbound
    /\ depth' = 0
    /\ result' = <<>>
    /\ UNCHANGED <<self, puzzle_vars, heap_vars, tree>>

NextRerun ==
    \/ TreeInit
    \/ Call
    \/ BftsStep
    \/ BftsElse
    \/ IdDftsStep
    \/ IdDftsEnd
    \/ GrbefgsStep
    \/ AstargsStep
    \/ QueueElse
    \/ Rerun

SpecRerun == InitRerun /\ [][NextRerun]_vars

(***************************************************************************)
(* SpecNode: the Puzzle objects of the nodes on a heap of Python lists, as *)
(* Tree.__init__ and the loop over the valid moves build them.  A Puzzle   *)
(* object holds its numbers itself; swaps is the address of a list of      *)
(* swaps, board the address of a list of addresses of rows.  objects holds *)
(* the nodes built, each with the index of its parent (0 for the root).    *)
(***************************************************************************)
\* <<width, height>> of the boards SpecNode starts from.
NodeShapes == { <<3, 3>> }

\* The puzzle the reference s stands for: the lists in place of their
\* addresses.
state_at(h, s) ==
    [s EXCEPT !.swaps = h[@],
              !.board = [y \in 1..Len(h[@]) |-> h[h[@][y]]]]

\* The node at objects[i], its state as state_at has it.
node_at(h, i) == [objects[i] EXCEPT !.state = state_at(h, @)]

\* The addresses of the lists of the puzzle s refers to.
storage(h, s) == {s.swaps, s.board} \cup ToSet(h[s.board])

\* The writes of a method called on the object s refers to that leaves it
\* as p: cells of its rows (self.board[y][x] = ...) and its list of swaps
\* (self.swaps.append), each list where it is.
write_lists(h, s, p) ==
    LET rows == h[s.board]
    IN  [a \in 1..Len(h) |->
            IF a = s.swaps THEN p.swaps
            ELSE IF \E y \in 1..Len(rows) : rows[y] = a
                 THEN p.board[CHOOSE y \in 1..Len(rows) : rows[y] = a]
                 ELSE h[a]]

\* The object itself after that method: its numbers are p's, its lists
\* stay those of s.
write_fields(s, p) == [p EXCEPT !.swaps = s.swaps, !.board = s.board]

\* Puzzle.copy with self.board[:] for the list of copied rows: the rows of
\* the copy are those of the original.
heap_copy_rows_shared(h, s) ==
    LET n  == Len(h)
        h1 == Append(h, h[s.swaps])
        h2 == Append(h1, h[s.board])
    IN  [heap |-> h2, state |-> [s EXCEPT !.swaps = n + 1, !.board = n + 2]]

\* Puzzle.copy: copy(self) copies the numbers and the two addresses; then
\* new.swaps is a new list of the same swaps and new.board a new list of
\* new rows of the same labels.
heap_copy(h, s) ==
    LET n    == Len(h)
        rows == h[s.board]
        h1   == Append(h, h[s.swaps])
        h2   == h1 \o [y \in 1..Len(rows) |-> h[rows[y]]]
        h3   == Append(h2, [y \in 1..Len(rows) |-> n + 1 + y])
    IN  [heap |-> h3,
         state |-> [s EXCEPT !.swaps = n + 1, !.board = n + 1 + Len(rows) + 1]]

\* The nodes there are, and the driver's puzzle, as they are.
snapshot ==
    [nodes |-> [j \in 1..Len(objects) |-> node_at(heap, j)],
     top   |-> state_at(heap, self)]

\* driver.py, line 28: top = Puzzle(...), its swaps list at address 1, its
\* rows at the next addresses and its list of rows after them.
InitNode ==
    /\ \E shape \in NodeShapes, n \in DeviceTypes :
         \E pool_height \in 0..shape[2], board \in Boards(shape[1], shape[2]) :
            /\ heap = << <<>> >> \o board \o << [y \in 1..shape[2] |-> 1 + y] >>
            /\ self = [Puzzle(3, MaxSwaps, n, shape[1], shape[2], pool_height, board)
                          EXCEPT !.swaps = 1, !.board = shape[2] + 2]
    /\ objects = <<>>
    /\ op = "new"
    /\ out = <<>>
    /\ pre = [nodes |-> <<>>, top |-> None]
    /\ search_idle

\* Tree.__init__, lines 23-26: the root is Node(top), and the cascade runs
\* on the root's state.
NodeRoot ==
    /\ objects = <<>>
    /\ \E c \in {heap_copy(heap, self)} :
         \E p \in {remove_matches(state_at(c.heap, c.state),
                                  get_all_matches(state_at(c.heap, c.state)))} :
            /\ heap' = write_lists(c.heap, c.state, p)
            /\ objects' = << [state  |-> write_fields(c.state, p),
                              action |-> NoAction,
                              cost   |-> 0,
                              parent |-> 0] >>
    /\ op' = "Tree"
    /\ out' = <<>>
    /\ pre' = snapshot
    /\ UNCHANGED <<self, search_vars>>

\* tree.py, lines 59-67 (and 136-144, 195-203, 253-261): get_valid_moves on
\* the state of a node, which swaps and swaps back on its rows; then for one
\* of the moves Node(node.state, (dev1, dev2), node, node.cost),
\* perform_action and remove_matches on the new node's state.
NodeChild ==
    /\ objects # <<>>
    /\ Len(objects) < MaxNodes
    /\ \A j \in 1..Len(objects) : objects[j].state.raised = ""
    /\ \E i \in 1..Len(objects) :
         \E g \in {get_valid_moves(state_at(heap, objects[i].state))} :
            \E k \in 1..Len(g.moves) :
               \E c \in {heap_copy(write_lists(heap, objects[i].state, g.state),
                                   write_fields(objects[i].state, g.state))} :
                  \E n \in {make_child([state |-> state_at(c.heap, c.state),
                                        action |-> NoAction,
                                        cost |-> objects[i].cost],
                                       g.moves[k][1], g.moves[k][2])} :
                     /\ heap' = write_lists(c.heap, c.state, n.state)
                     /\ objects' = Append([objects EXCEPT ![i].state =
                                               write_fields(@, g.state)],
                                          [state  |-> write_fields(c.state, n.state),
                                           action |-> n.action,
                                           cost   |-> n.cost,
                                           parent |-> i])
    /\ op' = "Node"
    /\ out' = <<>>
    /\ pre' = snapshot
    /\ UNCHANGED <<self, search_vars>>

NextNode ==
    \/ NodeRoot
    \/ NodeChild

SpecNode == InitNode /\ [][NextNode]_vars

(***************************************************************************)
(* SpecAstar: driver.py builds the Puzzle and the Tree, and astargs runs,  *)
(* on boards of four rows with a swap budget of up to MaxAstarSwaps.       *)
(***************************************************************************)
\* The three upper rows of the boards SpecAstar starts from; the pool is
\* the upper two.
AstarRows ==
    << <<"2", "1", "2", "1">>,
       <<"1", "1", "1", "1">>,
       <<"1", "2", "2", "1">> >>

\* The boards: AstarRows over any fourth row.
AstarBoards == { AstarRows \o <<row>> : row \in [1..4 -> InitLabels] }

\* The quotas of SpecAstar.
AstarQuotas == (MaxAstarQuota - 2)..MaxAstarQuota

InitAstar ==
    /\ \E board \in AstarBoards, quota \in AstarQuotas, max_swaps \in 0..MaxAstarSwaps :
          self = Puzzle(quota, max_swaps, 2, 4, 4, 2, board)
    /\ op = "new"
    /\ out = <<>>
    /\ pre = None
    /\ tree = None
    /\ alg = NoName
    /\ pc = "main"
    /\ frontier = <<>>
    /\ explored = <<>>
    /\ node = Unbound
    /\ new_node = Unbound
    /\ depth = 0
    /\ result = <<>>
    /\ trace = NoTrace
    /\ heap_idle

\* The call of astargs, up to its loop (lines 225-228).
CallAstargs ==
    /\ pc = "tree"
    /\ alg' = "astargs"
    /\ pc' = "astargs"
    /\ frontier' = PriorityQueue("astargs", <<tree.root>>)
    /\ trace' = [NoTrace EXCEPT !.generated = {tree.root}, !.runs = trace.runs]
    /\ UNCHANGED <<self, puzzle_vars, heap_vars, tree, explored, node, new_node, depth, result>>

NextAstar ==
    \/ TreeInit
    \/ CallAstargs
    \/ AstargsStep
    \/ QueueElse

SpecAstar == InitAstar /\ [][NextAstar]_vars

(***************************************************************************)
(* The statements checked.                                                 *)
(***************************************************************************)
score_of(n) == n.state.score

is_goal(n) == n.state.score >= n.state.quota

finished == pc \in {"done", "error"}

\* Whenever the strategy named a has taken a node it had not explored from
\* its frontier and the node's score is at least quota, that node is the
\* last one it took, the run has ended and returned that node's swaps.
stops_at_first_goal(a) ==
    alg = a =>
      \A i \in 1..Len(trace.visited) :
         (trace.visited[i].fresh /\ is_goal(trace.visited[i].node))
            => /\ i = Len(trace.visited)
               /\ pc = "done"
               /\ trace.how = "goal"
               /\ result = trace.visited[i].node.state.swaps

\* C1: astargs stops at the first node it dequeues, has not explored yet and
\* whose score is at least quota, whatever the node's cost, and returns
\* exactly that node's swaps.
C1_AstargsStopsAtFirstGoal == stops_at_first_goal("astargs")

\* astargs has stopped at a goal whose cost is max_swaps, one swap or more.
C1_Witness ==
    /\ alg = "astargs"
    /\ pc = "done"
    /\ trace.how = "goal"
    /\ trace.ret.cost = trace.ret.state.max_swaps
    /\ Len(result) >= 1
    /\ Len(trace.visited) >= 2

\* The positions in trace.visited of the nodes whose score is at least quota.
goal_ix == { i \in 1..Len(trace.visited) : is_goal(trace.visited[i].node) }

\* C2: bfts stops the moment it dequeues a node whose score is at least
\* quota, whatever the node's cost, and returns exactly that node's swaps:
\* once bfts has returned, the list it returned is that of the first such
\* node it dequeued, if it dequeued one.
C2_BftsStopsAtFirstGoal ==
    (alg = "bfts" /\ pc = "done" /\ goal_ix # {})
       => result = trace.visited[Min(goal_ix)].node.state.swaps

\* The first node dequeued with the highest score among the dequeued.
first_best(visited) ==
    LET best == Max({ score_of(visited[i].node) : i \in 1..Len(visited) })
        i0   == Min({ i \in 1..Len(visited) : score_of(visited[i].node) = best })
    IN  visited[i0].node

\* C3: when bfts or astargs empties its frontier without stopping at a goal,
\* it returns the swaps of the node that has the highest score of all the
\* nodes it dequeued, the first dequeued of those.
C3_ExhaustedReturnsFirstBest ==
    (alg \in {"bfts", "astargs"} /\ pc = "done" /\ trace.how = "exhausted")
       => /\ Len(trace.visited) >= 1
          /\ trace.ret = first_best(trace.visited)
          /\ result = first_best(trace.visited).state.swaps

\* bfts or astargs has emptied its frontier, the best node is not the root
\* and another node dequeued later has the same score.
C3_Witness ==
    /\ alg \in {"bfts", "astargs"}
    /\ pc = "done"
    /\ trace.how = "exhausted"
    /\ trace.ret # tree.root
    /\ \E i \in 1..Len(trace.visited) :
          /\ trace.visited[i].node # trace.ret
          /\ trace.visited[i].node.state.swaps # trace.ret.state.swaps
          /\ score_of(trace.visited[i].node) = score_of(trace.ret)

\* C4: when id_dfts finds no goal at any depth, it returns the swaps of a
\* node whose score is the highest of all the nodes generated in the run,
\* those of cost max_swaps too.
C4_IdDftsReturnsBestGenerated ==
    (alg = "id_dfts" /\ pc = "done" /\ trace.how = "exhausted")
       => score_of(trace.ret) = Max({ score_of(n) : n \in trace.generated })

\* C5: grbefgs never ends in an error.
C5_GrbefgsNeverRaises == alg = "grbefgs" => pc # "error"

\* The nodes a valid swap makes from n (a swap whose cascade raises makes
\* none).
child_nodes(n) ==
    { c \in { make_child(n, m[1], m[2]) : m \in ToSet(get_valid_moves(n.state).moves) } :
        c.state.raised = "" }

RECURSIVE nodes_at(_, _)
\* The nodes d valid swaps away from n.
nodes_at(n, d) ==
    IF d = 0 THEN {n} ELSE UNION { child_nodes(c) : c \in nodes_at(n, d - 1) }

RECURSIVE in_order(_, _)
\* The nodes d valid swaps away from n in depth-first order, the moves
\* taken in the order get_valid_moves lists them.
in_order(n, d) ==
    IF d = 0 THEN <<n>>
    ELSE LET moves == get_valid_moves(n.state).moves
             kids  == [i \in 1..Len(moves) |-> make_child(n, moves[i][1], moves[i][2])]
         IN  Concat([i \in 1..Len(kids) |->
                       IF kids[i].state.raised # "" THEN <<>>
                       ELSE in_order(kids[i], d - 1)])

goal_depths(root) ==
    { d \in 0..root.state.max_swaps : \E n \in nodes_at(root, d) : is_goal(n) }

first_goal(root) ==
    LET d     == Min(goal_depths(root))
        nodes == in_order(root, d)
        i0    == Min({ i \in 1..Len(nodes) : is_goal(nodes[i]) })
    IN  nodes[i0]

\* C6: if a node within max_swaps valid swaps of the root has a score of at
\* least quota, id_dfts returns the swaps of the first node, in depth-first
\* order, of the smallest cost at which such a node exists.
C6_IdDftsReturnsShallowestGoal ==
    (alg = "id_dfts" /\ finished /\ goal_depths(tree.root) # {})
       => /\ pc = "done"
          /\ trace.ret = first_goal(tree.root)
          /\ result = first_goal(tree.root).state.swaps

\* The same of the runs in which no cascade raises.
IdDftsReturnsShallowestGoalUnlessRaised ==
    (alg = "id_dfts" /\ pc = "done" /\ goal_depths(tree.root) # {})
       => /\ trace.ret = first_goal(tree.root)
          /\ result = first_goal(tree.root).state.swaps

\* C7: bfts, id_dfts and astargs expand no node whose cost has reached
\* max_swaps: the nodes generated have a cost of at most max_swaps and the
\* list returned holds at most max_swaps swaps.
C7_NoExpansionAtMaxSwaps ==
    alg \in {"bfts", "id_dfts", "astargs"}
       => /\ \A n \in trace.expanded : n.cost < n.state.max_swaps
          /\ \A n \in trace.generated : n.cost <= n.state.max_swaps
          /\ pc = "done" => Len(result) <= tree.root.state.max_swaps

\* A node of cost max_swaps that has valid moves was dequeued and not
\* expanded, and the run has ended.
C7_Witness ==
    /\ alg \in {"bfts", "astargs"}
    /\ pc = "done"
    /\ \E i \in 1..Len(trace.visited) :
          /\ trace.visited[i].node.cost = tree.root.state.max_swaps
          /\ trace.visited[i].node.cost >= 1
          /\ get_valid_moves(trace.visited[i].node.state).moves # <<>>
          /\ trace.visited[i].node \notin trace.expanded

\* C8: a call of remove_matches that returns has raised score by the number
\* of distinct cells the cascade emptied, all rounds together.
C8_ScoreCountsEmptiedCells ==
    (op = "remove_matches" /\ self.raised = "")
       => self.score - pre.score = self.emptied - pre.emptied

\* The cells at or below the pool boundary that lie in a row or column run
\* of three or more equal labels.
in_row_run(p, x, y) ==
    \E a \in 0..x, b \in x..(p.width - 1) :
       /\ b - a >= 2
       /\ \A k \in a..b : Cell(p, k, y) = Cell(p, x, y)

in_col_run(p, x, y) ==
    \E a \in p.pool_height..y, b \in y..(p.height - 1) :
       /\ b - a >= 2
       /\ \A k \in a..b : Cell(p, x, k) = Cell(p, x, y)

run_cells(p) ==
    { c \in (0..(p.width - 1)) \X (p.pool_height..(p.height - 1)) :
        /\ Cell(p, c[1], c[2]) # "E"
        /\ in_row_run(p, c[1], c[2]) \/ in_col_run(p, c[1], c[2]) }

\* C9: get_all_matches returns, as a set, exactly the cells below the pool
\* boundary that belong to a row or column run of three or more equal
\* labels, every run of a row or column that holds more than one.
C9_AllMatchesAreAllRuns ==
    op = "get_all_matches" => ToSet(out) = run_cells(self)

\* The pairs of adjacent cells at or below the pool boundary, the left or
\* upper cell first.
adjacent_pairs(p) ==
    { m \in ((0..(p.width - 1)) \X (p.pool_height..(p.height - 1)))
            \X ((0..(p.width - 1)) \X (p.pool_height..(p.height - 1))) :
        \/ m[2][1] = m[1][1] + 1 /\ m[2][2] = m[1][2]
        \/ m[2][1] = m[1][1] /\ m[2][2] = m[1][2] + 1 }

\* C10: on a settled board get_valid_moves returns exactly the pairs of
\* adjacent cells at or below the pool boundary whose swap makes
\* get_matches non-empty, and leaves the puzzle as it was.
C10_ValidMovesExact ==
    op = "get_valid_moves"
       => /\ ToSet(out) = { m \in adjacent_pairs(pre) :
                              get_matches(swap(pre, m[1], m[2]), m[1], m[2]) # <<>> }
          /\ self = pre

\* get_valid_moves has returned a horizontal and a vertical swap and left
\* out another pair of adjacent cells.
C10_Witness ==
    /\ op = "get_valid_moves"
    /\ \E i, j \in 1..Len(out) : out[i][1][2] = out[i][2][2] /\ out[j][1][1] = out[j][2][1]
    /\ \E m \in adjacent_pairs(pre) : m \notin ToSet(out)

\* C11: on a well-formed board the cascade completes without raising: no
\* call of remove_matches ends with get_new_device raising ValueError or
\* IndexError, removed cells in rows 0 and 1 included.
C11_CascadeNeverRaises ==
    op = "remove_matches" => self.raised \notin {"ValueError", "IndexError"}

\* C12: remove_matches terminates: no call of it recurses for ever (which
\* Python ends with RecursionError).
C12_CascadeTerminates ==
    op = "remove_matches" => self.raised # "RecursionError"

\* A puzzle is settled: no cell at or below the pool boundary is empty and
\* none lies in a row or column run of three or more equal labels.
settled(p) ==
    /\ \A x \in 0..(p.width - 1), y \in p.pool_height..(p.height - 1) :
          Cell(p, x, y) # "E"
    /\ run_cells(p) = {}

\* The nodes in the strategy's frontier.
frontier_nodes ==
    IF alg \in {"grbefgs", "astargs"} THEN ToSet(frontier.items) ELSE ToSet(frontier)

\* C13: when remove_matches returns, the board is settled: the root, every
\* node a strategy has built and every node in a frontier is settled.
C13_NodesAreSettled ==
    pc \in Strategies \cup {"done"}
       => \A n \in trace.generated \cup frontier_nodes : settled(n.state)

\* A node in the frontier was built by a cascade of three rounds or more
\* (two that removed matches and the one that found none).
C13_Witness ==
    /\ pc \in {"bfts", "astargs"}
    /\ \E n \in frontier_nodes : n.cost >= 1 /\ n.state.rounds >= 3

\* The labels 1..num_device_types.
labels(p) == { str(n) : n \in 1..p.num_device_types }

\* C14: every cell of the board holds the empty marker or a label in
\* 1..num_device_types, what a refill of the top row wrote included.
C14_CellsAreLabels ==
    /\ \A y \in 1..Len(self.board) : \A x \in 1..Len(self.board[y]) :
          self.board[y][x] \in labels(self) \cup {"E"}
    /\ \A i \in 1..Len(self.refills) : self.refills[i].label \in labels(self)

\* A cascade has returned after writing the label num_device_types, which
\* the board given did not hold, into the top row.
C14_Witness ==
    /\ op = "remove_matches"
    /\ self.raised = ""
    /\ self.num_device_types = MaxDeviceTypes
    /\ \E i \in 1..Len(self.refills) :
          /\ self.refills[i].label = str(MaxDeviceTypes)
          /\ self.board[1][self.refills[i].x + 1] = str(MaxDeviceTypes)

\* C19: remove_matches(get_all_matches()) on a board on which
\* get_all_matches() is empty returns and leaves the grid and the score as
\* they were: on the board as given (where the score is 0) and on the board
\* a cascade has left.
C19_NoMatchesNoChange ==
    (/\ op \in {"remove_matches", "remove_all_matches"}
     /\ self.swaps = pre.swaps
     /\ get_all_matches(pre) = <<>>)
       => /\ self.raised = ""
          /\ self.board = pre.board
          /\ self.score = pre.score

\* The board the cascade of a move left, which has no match, was handed to
\* remove_matches once more.
C19_Witness ==
    /\ op = "remove_all_matches"
    /\ get_all_matches(pre) = <<>>
    /\ Len(self.swaps) >= 1
    /\ self.score > 0

\* The number of the refill self.refills[i] within its round.
refill_number(p, i) ==
    Cardinality({ j \in 1..i : p.refills[j].round = p.refills[i].round })

\* C20: within one round of a cascade the k-th refill of the top row, at
\* column x, writes ((the label in row 1 of column x) + x + k) mod
\* num_device_types + 1, and k starts again with every round.
C20_RefillFormula ==
    \A i \in 1..Len(self.refills) :
       LET e == self.refills[i]
       IN  e.label = str(((int(e.below) + e.x + refill_number(self, i))
                            % self.num_device_types) + 1)

\* A cascade has refilled the top row in two rounds or more, twice or more
\* in a round after the first.
C20_Witness ==
    /\ op = "remove_matches"
    /\ self.raised = ""
    /\ \E i \in 1..Len(self.refills) :
          /\ self.refills[i].round >= 2
          /\ refill_number(self, i) >= 2

\* C18: what a strategy returns depends on the puzzle and the strategy
\* alone: a strategy that has returned on a Tree on which it returned
\* before, whatever ran in between, has returned the same list.
C18_RerunReturnsTheSame ==
    pc = "done"
       => \A i \in 1..Len(trace.runs) :
             trace.runs[i].alg = alg => trace.runs[i].result = result

\* C16: two PriorityQueue objects share no storage: an enqueue or a dequeue
\* on one queue leaves the list of every other queue, and so its length,
\* as it was.
C16_QueuesShareNothing ==
    op \in {"enqueue", "dequeue"}
       => \A j \in 1..Len(objects) :
             j # pre.target => queue_at(heap, j).items = pre.contents[j]

\* list holds what before holds and v once more.
one_more(list, before, v) ==
    \A w \in QueueItems :
       count(list, w) = count(before, w) + (IF w = v THEN 1 ELSE 0)

\* What dequeue and enqueue do to the queue they are called on: dequeue
\* takes out one item, of a key no larger than any other's, and keeps the
\* rest; enqueue adds the item given.
queue_operation_exact ==
    LET q      == queue_at(heap, pre.target)
        before == pre.contents[pre.target]
    IN  /\ op = "dequeue"
           => /\ \E i \in 1..Len(before) : before[i] = out[1]
              /\ \A i \in 1..Len(before) :
                    key_of(q.key, out[1]) <= key_of(q.key, before[i])
              /\ one_more(before, q.items, out[1])
              /\ len(q) = Len(before) - 1
        /\ op = "enqueue"
           => /\ one_more(q.items, before, out[1])
              /\ len(q) = Len(before) + 1

\* C17: dequeue removes one item of the smallest key and keeps the others,
\* enqueue adds the item given, so that every queue holds the items it was
\* built with and those enqueued on it, less those dequeued from it.
C17_QueueHoldsItsItems ==
    /\ queue_operation_exact
    /\ \A i \in 1..Len(objects) :
          \A v \in QueueItems :
             count(queue_at(heap, i).items, v) = objects[i].held[v]

\* What C17 says holds of every queue that was built with a list of its own.
QueueWithOwnListHoldsItsItems ==
    /\ queue_operation_exact
    /\ \A i \in 1..Len(objects) :
          objects[i].obj.items # DefaultItems
             => \A v \in QueueItems :
                   count(queue_at(heap, i).items, v) = objects[i].held[v]

\* C15: building a child (Node with the copy of the state, perform_action,
\* remove_matches) leaves the grid, the score and the swaps of its parent
\* and of every other node there was as they were, and no two nodes share
\* a row, a list of rows or a list of swaps.
C15_ChildLeavesOthersAlone ==
    op = "Node"
       => /\ \A j \in 1..Len(pre.nodes) :
                /\ node_at(heap, j).state.board = pre.nodes[j].state.board
                /\ node_at(heap, j).state.score = pre.nodes[j].state.score
                /\ node_at(heap, j).state.swaps = pre.nodes[j].state.swaps
          /\ \A i, j \in 1..Len(objects) :
                i # j => storage(heap, objects[i].state)
                            \cap storage(heap, objects[j].state) = {}

\* A child of a child of the root has been built: its grid is neither its
\* parent's nor the root's, its score is above its parent's, and it has
\* two swaps where its parent has one and the root none.
C15_Witness ==
    /\ op = "Node"
    /\ Len(objects) = 3
    /\ objects[2].parent = 1
    /\ objects[3].parent = 2
    /\ objects[3].state.raised = ""
    /\ node_at(heap, 3).state.board # node_at(heap, 2).state.board
    /\ node_at(heap, 3).state.board # node_at(heap, 1).state.board
    /\ node_at(heap, 3).state.score > node_at(heap, 2).state.score
    /\ Len(node_at(heap, 3).state.swaps) = 2
    /\ Len(node_at(heap, 2).state.swaps) = 1
    /\ node_at(heap, 1).state.swaps = <<>>

RECURSIVE replay(_, _)
\* The node the swaps lead to from n: each swap as the loops over the valid
\* moves do it, with its cascade.
replay(n, swaps) ==
    IF swaps = <<>> THEN n
    ELSE replay(make_child(n, Head(swaps)[1], Head(swaps)[2]), Tail(swaps))

\* swaps without its last swap.
but_last(swaps) == SubSeq(swaps, 1, Len(swaps) - 1)

\* C21: every node a strategy has built has as many swaps as its cost; the
\* root has none and no action; the swaps of any other node are those of a
\* node built before it, its parent, and then its action; and the swaps
\* returned, replayed from the settled root with the cascade after each,
\* give the grid and the score of the node returned.
C21_SwapsAreThePath ==
    pc \in Strategies \cup {"done"}
       => /\ \A n \in trace.generated :
                /\ Len(n.state.swaps) = n.cost
                /\ n.cost = 0 => n.action = NoAction /\ n = tree.root
                /\ n.cost > 0
                      => /\ n.state.swaps[n.cost] = n.action
                         /\ \E par \in trace.generated :
                               /\ par.cost = n.cost - 1
                               /\ par.state.swaps = but_last(n.state.swaps)
                               /\ make_child(par, n.action[1], n.action[2]) = n
                /\ puzzle_eq(replay(tree.root, n.state.swaps).state, n.state)
          /\ pc = "done"
                => /\ result = trace.ret.state.swaps
                   /\ puzzle_eq(replay(tree.root, result).state, trace.ret.state)

\* A strategy has returned the two swaps of a node of cost 2, whose score is
\* above the root's.
C21_Witness ==
    /\ pc = "done"
    /\ Len(result) = 2
    /\ trace.ret.cost = 2
    /\ trace.ret.state.score > tree.root.state.score
    /\ result[1] # result[2]

RECURSIVE goal_within_budget(_)
\* Some sequence of valid swaps from n, each with its cascade and none of
\* them raising, within n's swap budget, reaches the quota.
goal_within_budget(n) ==
    \/ is_goal(n)
    \/ /\ n.cost < n.state.max_swaps
       /\ \E k \in 1..Len(get_valid_moves(n.state).moves) :
             LET m == get_valid_moves(n.state).moves[k]
                 c == make_child(n, m[1], m[2])
             IN  c.state.raised = "" /\ goal_within_budget(c)

\* C22: when swaps within the budget lead from the settled root to the
\* quota, astargs returns the swaps of a node whose score is at least the
\* quota.
C22_AstargsFindsAGoal ==
    alg = "astargs" /\ finished /\ goal_within_budget(tree.root)
       => /\ pc = "done"
          /\ is_goal(trace.ret)
          /\ result = trace.ret.state.swaps

\* astargs returned, and did not raise, without a goal that is within the
\* budget.
AstargsReturnsAGoalWhenItReturns ==
    alg = "astargs" /\ pc = "done" /\ goal_within_budget(tree.root)
       => is_goal(trace.ret)

====
